---- MODULE Spec2Model ----
(***************************************************************************)
(* Model of cyaron/query.py: RangeQuery.random (the batch driver),         *)
(* RangeQuery.get_one_query (the per-dimension sampler) and                *)
(* RangeQuery.to_str (the text rendering).                                 *)
(*                                                                         *)
(* A call RangeQuery.random(num, position_range, mode=, weight_generator=, *)
(* big_query=) is followed step by step: one step per dimension of one     *)
(* get_one_query call, one step per iteration of the redraw loop, one step *)
(* per return.  Every value taken from the random module is a              *)
(* nondeterministic choice over the values the call can return.            *)
(***************************************************************************)
EXTENDS Integers, Sequences, FiniteSets, TLC

\* ---------------------------------------------------------------- bounds
MaxDim == 2        \* longest position_range list
MaxNum == 2        \* largest num
MaxCells == 2      \* largest num * len(position_range)
MaxDefaultNum == 1 \* largest num when position_range is left to its default
MaxDraws == 3      \* the per-call draw counter saturates here

\* ------------------------------------------------------------ enumerations
LESS == 0
ALLOW_EQUAL == 1
RangeQueryRandomMode == {LESS, ALLOW_EQUAL}

\* big_query and the value of random.random(), both in hundredths.
BigQueryVals == {0, 20, 100}
RandomVals == {0, 50}

\* An entry of position_range: an int, or a tuple of one or two ints.
IntSpec(x) == [type |-> "int", val |-> <<x>>]
TupleSpec(t) == [type |-> "tuple", val |-> t]

\* The entries tried: the small entries of the tests (1, 2, (4, 4), (4, 5),
\* (5, 4)), a one-element tuple and a range of three values.
BoundSpecs ==
  {IntSpec(1), IntSpec(2), IntSpec(3), TupleSpec(<<2>>),
   TupleSpec(<<4, 4>>), TupleSpec(<<4, 5>>), TupleSpec(<<5, 4>>)}

BoundLists == UNION {[1..n -> BoundSpecs] : n \in 0..MaxDim}

\* -------------------------------------------------------------- variables
VARIABLES
  num,              \* argument num of random
  position_range,   \* argument position_range: [is_none, items]
  mode,             \* argument mode
  weight_generator, \* "None" or "weight_gen"
  big_query,        \* argument big_query, in hundredths
  pc,               \* position in the code
  result,           \* ret.result
  i,                \* loop variable of random
  d,                \* loop variable i of get_one_query
  query_l, query_r, \* locals of get_one_query
  l, r,             \* locals of get_one_query
  branch,           \* branch taken at `if random.random() < big_query`
  draws,            \* values taken from the random source in this call
  calls,            \* invocations of weight_generator so far
  err,              \* the exception that ended the call, or "none"
  out               \* value returned by to_str

args == <<num, position_range, mode, weight_generator, big_query>>
locals == <<d, query_l, query_r, l, r, branch>>
vars == <<num, position_range, mode, weight_generator, big_query, pc, result,
          i, d, query_l, query_r, l, r, branch, draws, calls, err, out>>

\* ---------------------------------------------------------------- helpers
Max(a, b) == IF a >= b THEN a ELSE b
Min(a, b) == IF a <= b THEN a ELSE b

\* `if position_range is None: position_range = [10]`
PositionRange ==
  IF position_range.is_none THEN <<IntSpec(10)>> ELSE position_range.items

dimension == Len(PositionRange)

\* Variant: an int entry read as a zero-based range.
CurRangeZeroBased(pr) ==
  IF pr.type = "int" THEN <<0, pr.val[1]>>
  ELSE IF Len(pr.val) = 1 THEN <<0, pr.val[1]>>
  ELSE pr.val

\* cur_range of an entry pr of position_range.
CurRange(pr) ==
  IF pr.type = "int" THEN <<1, pr.val[1]>>
  ELSE IF Len(pr.val) = 1 THEN <<1, pr.val[1]>>
  ELSE pr.val

\* The messages of the two `raise ValueError` statements.
MsgUpperBelowLower == "upper-bound should be larger than lower-bound"
MsgLessButEqual == "mode is set to less but upper-bound is equal to lower-bound"

\* Variant: the comparison of the first test reversed.
UpperBelowLowerReversed(cur_range) == cur_range[1] < cur_range[2]

\* Variant: the second test left out.
LessButEqualNever(cur_range, m) == FALSE

\* The two `raise ValueError` conditions, in the order the code tests them.
UpperBelowLower(cur_range) == cur_range[1] > cur_range[2]

LessButEqual(cur_range, m) == m = LESS /\ cur_range[1] = cur_range[2]

InvalidRange(cur_range, m) ==
  UpperBelowLower(cur_range) \/ LessButEqual(cur_range, m)

\* Variant: the floor of 2 applied in both modes.
LowerBoundFloorTwo(cur_l, m) == Max(2, cur_l \div 2)

\* lb of the big-query branch.
LowerBound(cur_l, m) == Max(IF m = LESS THEN 2 ELSE 1, cur_l \div 2)

\* random.randint(a, b) returns a member of a..b and raises ValueError when
\* the interval is empty.
RandInt(a, b) == a..b

\* Variant: the redraw condition without the test of the mode.
MustRedrawAnyMode(m, x, y) == x = y

\* The redraw condition of the small-query branch.
MustRedraw(m, x, y) == m = LESS /\ x = y

\* Every value taken from the random source advances its state.
Drawn(n) == Min(draws + n, MaxDraws)

\* The weight generator of the tests, with small moduli:
\* pow(base, index, modulus) plus the sum of l[j] * r[j] * factor.
RECURSIVE PowMod(_, _, _)
PowMod(b, e, m) == IF e = 0 THEN 1 % m ELSE (b * PowMod(b, e - 1, m)) % m

RECURSIVE WeightSum(_, _, _, _)
WeightSum(ret, ql, qr, j) ==
  IF j > Len(ql) THEN ret
  ELSE WeightSum((ret + ql[j] * qr[j] * 3) % 97, ql, qr, j + 1)

weight_gen(index, ql, qr) == <<WeightSum(PowMod(5, index, 97), ql, qr, 1)>>

\* Variant: the loop variable passed as the index.
CallIndexZeroBased == i

\* The index random passes to get_one_query.
CallIndex == i + 1

\* Variant: a loop that stops one iteration early.
InRangeShort(k, n) == k < n - 1

\* `for i in range(num)`: the loop body runs for i = k.
InRange(k, n) == k < n

\* The triple get_one_query returns.
Triple(ql, qr, index) ==
  IF weight_generator = "None"
  THEN [l |-> ql, r |-> qr, w |-> <<>>]
  ELSE [l |-> ql, r |-> qr, w |-> weight_gen(index, ql, qr)]

\* ------------------------------------------------------------------ to_str
Digits == <<"0", "1", "2", "3", "4", "5", "6", "7", "8", "9">>

RECURSIVE NatToStr(_)
NatToStr(n) ==
  IF n < 10 THEN <<Digits[n + 1]>>
  ELSE NatToStr(n \div 10) \o <<Digits[(n % 10) + 1]>>

\* str(x) for an int x, as a sequence of characters.
Str(x) == IF x < 0 THEN <<"-">> \o NatToStr(-x) ELSE NatToStr(x)

\* sep.join(strs)
RECURSIVE Join(_, _)
Join(sep, strs) ==
  IF strs = <<>> THEN <<>>
  ELSE IF Len(strs) = 1 THEN strs[1]
  ELSE strs[1] \o sep \o Join(sep, Tail(strs))

StrAll(xs) == [k \in 1..Len(xs) |-> Str(xs[k])]

\* The weight field is added when the weight has components.
HasWeightField(w_to_str) == Len(w_to_str) > 0

\* One iteration of the loop of to_str: what is added to res.
Line(t) ==
  Join(<<" ">>, StrAll(t.l)) \o <<" ">> \o Join(<<" ">>, StrAll(t.r))
    \o (IF HasWeightField(StrAll(t.w))
        THEN <<" ">> \o Join(<<" ">>, StrAll(t.w)) ELSE <<>>)
    \o <<"\n">>

RECURSIVE Res(_)
Res(ts) == IF ts = <<>> THEN <<>> ELSE Line(ts[1]) \o Res(Tail(ts))

\* Variant: the last newline kept.
KeepLast(s) == s

\* res[:-1]
DropLast(s) == IF s = <<>> THEN <<>> ELSE SubSeq(s, 1, Len(s) - 1)

to_str(ts) == DropLast(Res(ts))

\* -------------------------------------------------------------------- Init
Init ==
  /\ \/ /\ position_range \in {[is_none |-> FALSE, items |-> b] : b \in BoundLists}
        /\ num \in 0..MaxNum
        /\ num * Len(position_range.items) <= MaxCells
     \/ /\ position_range = [is_none |-> TRUE, items |-> <<>>]
        /\ num \in 0..MaxDefaultNum
  /\ mode \in RangeQueryRandomMode
  /\ weight_generator \in {"None", "weight_gen"}
  /\ big_query \in BigQueryVals
  /\ pc = "random"
  /\ result = <<>>
  /\ i = 0
  /\ d = 0
  /\ query_l = <<>>
  /\ query_r = <<>>
  /\ l = 0
  /\ r = 0
  /\ branch = "none"
  /\ draws = 0
  /\ calls = <<>>
  /\ err = "none"
  /\ out = <<>>

\* ----------------------------------------------------------------- actions
\* Variant: the weight generator invoked on entry, before any dimension.
CallGetOneQueryEagerWeight ==
  /\ pc = "random"
  /\ InRange(i, num)
  /\ pc' = "dim"
  /\ d' = 0
  /\ query_l' = <<>>
  /\ query_r' = <<>>
  /\ draws' = 0
  /\ calls' = IF weight_generator = "None" THEN calls
              ELSE Append(calls, [index |-> CallIndex, l |-> <<>>, r |-> <<>>])
  /\ UNCHANGED <<args, result, i, l, r, branch, err, out>>

\* random: the loop calls get_one_query, which starts with empty lists.
CallGetOneQuery ==
  /\ pc = "random"
  /\ InRange(i, num)
  /\ pc' = "dim"
  /\ d' = 0
  /\ query_l' = <<>>
  /\ query_r' = <<>>
  /\ draws' = 0
  /\ UNCHANGED <<args, result, i, l, r, branch, calls, err, out>>

\* random: the loop is over, the batch is returned.
ReturnBatch ==
  /\ pc = "random"
  /\ ~InRange(i, num)
  /\ pc' = "done"
  /\ UNCHANGED <<args, result, i, locals, draws, calls, err, out>>

\* Variant: validation placed after the draw that chooses the branch.
RaiseValueErrorAfterDraw ==
  /\ pc = "dim"
  /\ d < dimension
  /\ LET cur_range == CurRange(PositionRange[d + 1]) IN
       /\ InvalidRange(cur_range, mode)
       /\ err' = IF UpperBelowLower(cur_range)
                 THEN MsgUpperBelowLower ELSE MsgLessButEqual
  /\ pc' = "error"
  /\ draws' = Drawn(1)
  /\ UNCHANGED <<args, result, i, locals, calls, out>>

\* get_one_query: the dimension fails validation.
RaiseValueError ==
  /\ pc = "dim"
  /\ d < dimension
  /\ LET cur_range == CurRange(PositionRange[d + 1]) IN
       /\ InvalidRange(cur_range, mode)
       /\ err' = IF UpperBelowLower(cur_range)
                 THEN MsgUpperBelowLower ELSE MsgLessButEqual
  /\ pc' = "error"
  /\ UNCHANGED <<args, result, i, locals, draws, calls, out>>

\* get_one_query: the dimension is sampled by the big-query branch.
BigQuery ==
  /\ pc = "dim"
  /\ d < dimension
  /\ LET cur_range == CurRange(PositionRange[d + 1])
         cur_l == cur_range[2] - cur_range[1] + 1
         lb == LowerBound(cur_l, mode)
     IN
       /\ ~InvalidRange(cur_range, mode)
       /\ \E u \in RandomVals :
            /\ u < big_query
            /\ branch' = "big"
            /\ IF RandInt(lb, cur_l) = {}
               THEN /\ pc' = "error"
                    /\ err' = "empty range"
                    /\ draws' = Drawn(1)
                    /\ UNCHANGED <<d, query_l, query_r, l, r>>
               ELSE \E ql \in RandInt(lb, cur_l) :
                      IF RandInt(cur_range[1], cur_range[2] - ql + 1) = {}
                      THEN /\ pc' = "error"
                           /\ err' = "empty range"
                           /\ draws' = Drawn(2)
                           /\ UNCHANGED <<d, query_l, query_r, l, r>>
                      ELSE \E x \in RandInt(cur_range[1], cur_range[2] - ql + 1) :
                             /\ l' = x
                             /\ r' = x + ql - 1
                             /\ query_l' = Append(query_l, l')
                             /\ query_r' = Append(query_r, r')
                             /\ d' = d + 1
                             /\ draws' = Drawn(3)
                             /\ UNCHANGED <<pc, err>>
  /\ UNCHANGED <<args, result, i, calls, out>>

\* get_one_query: the dimension is sampled by the small-query branch; the
\* first pair is drawn and either kept or sent to the redraw loop.
SmallQuery ==
  /\ pc = "dim"
  /\ d < dimension
  /\ LET cur_range == CurRange(PositionRange[d + 1]) IN
       /\ ~InvalidRange(cur_range, mode)
       /\ \E u \in RandomVals :
            /\ ~(u < big_query)
            /\ branch' = "small"
            /\ IF RandInt(cur_range[1], cur_range[2]) = {}
               THEN /\ pc' = "error"
                    /\ err' = "empty range"
                    /\ draws' = Drawn(1)
                    /\ UNCHANGED <<d, query_l, query_r, l, r>>
               ELSE \E x \in RandInt(cur_range[1], cur_range[2]),
                       y \in RandInt(cur_range[1], cur_range[2]) :
                      /\ draws' = Drawn(3)
                      /\ err' = err
                      /\ IF MustRedraw(mode, x, y)
                         THEN /\ l' = x
                              /\ r' = y
                              /\ pc' = "redraw"
                              /\ UNCHANGED <<d, query_l, query_r>>
                         ELSE /\ l' = Min(x, y)
                              /\ r' = Max(x, y)
                              /\ query_l' = Append(query_l, l')
                              /\ query_r' = Append(query_r, r')
                              /\ d' = d + 1
                              /\ UNCHANGED pc
  /\ UNCHANGED <<args, result, i, calls, out>>

\* get_one_query: one iteration of `while mode == LESS and l == r`.
Redraw ==
  /\ pc = "redraw"
  /\ LET cur_range == CurRange(PositionRange[d + 1]) IN
       \E x \in RandInt(cur_range[1], cur_range[2]),
          y \in RandInt(cur_range[1], cur_range[2]) :
         /\ draws' = Drawn(2)
         /\ IF MustRedraw(mode, x, y)
            THEN /\ l' = x
                 /\ r' = y
                 /\ UNCHANGED <<pc, d, query_l, query_r>>
            ELSE /\ l' = Min(x, y)
                 /\ r' = Max(x, y)
                 /\ query_l' = Append(query_l, l')
                 /\ query_r' = Append(query_r, r')
                 /\ d' = d + 1
                 /\ pc' = "dim"
  /\ UNCHANGED <<args, result, i, branch, calls, err, out>>

\* get_one_query returns its triple and random appends it to ret.result.
ReturnQuery ==
  /\ pc = "dim"
  /\ d >= dimension
  /\ calls' = IF weight_generator = "None" THEN calls
              ELSE Append(calls, [index |-> CallIndex, l |-> query_l, r |-> query_r])
  /\ result' = Append(result, Triple(query_l, query_r, CallIndex))
  /\ i' = i + 1
  /\ pc' = "random"
  /\ UNCHANGED <<args, locals, draws, err, out>>

\* to_str on the returned batch.
ToStr ==
  /\ pc = "done"
  /\ out' = to_str(result)
  /\ pc' = "rendered"
  /\ UNCHANGED <<args, result, i, locals, draws, calls, err>>

Next ==
  \/ CallGetOneQuery
  \/ ReturnBatch
  \/ RaiseValueError
  \/ BigQuery
  \/ SmallQuery
  \/ Redraw
  \/ ReturnQuery
  \/ ToStr

Spec == Init /\ [][Next]_vars

\* The program is sequential and always executes its next statement; a fair
\* random source does not return equal pairs forever when unequal pairs exist.
Step ==
  \/ CallGetOneQuery
  \/ ReturnBatch
  \/ RaiseValueError
  \/ BigQuery
  \/ SmallQuery
  \/ ReturnQuery

RedrawExit == Redraw /\ pc' = "dim"

FairSpec == Spec /\ WF_vars(Step) /\ WF_vars(RedrawExit)

\* ------------------------------------------------------- claim vocabulary
\* The normalized bound of an entry: int U -> (1, U), (x,) -> (1, x),
\* a pair as it is.
NormBound(pr) ==
  CASE pr.type = "int" -> <<1, pr.val[1]>>
    [] pr.type = "tuple" /\ Len(pr.val) = 1 -> <<1, pr.val[1]>>
    [] OTHER -> <<pr.val[1], pr.val[2]>>

Lo(k) == NormBound(PositionRange[k])[1]
Hi(k) == NormBound(PositionRange[k])[2]
Inverted(k) == Lo(k) > Hi(k)
Degenerate(k) == Lo(k) = Hi(k)
HasInverted == \E k \in 1..dimension : Inverted(k)
Returned == pc \in {"done", "rendered"}
FailedInvalidRange ==
  pc = "error" /\ err \in {MsgUpperBelowLower, MsgLessButEqual}

\* ---------------------------------------------------------------------- C1
ValidTriple(t) ==
  /\ Len(t.l) = dimension
  /\ Len(t.r) = dimension
  /\ \A k \in 1..dimension :
       /\ Lo(k) <= t.l[k]
       /\ t.l[k] <= t.r[k]
       /\ t.r[k] <= Hi(k)
       /\ mode = LESS => t.l[k] # t.r[k]

\* C1: every triple of the batch has one L and one R entry per bound, each
\* dimension satisfies lo <= L <= R <= hi for its normalized bound, and
\* L # R under LESS.
C1_Validity == \A k \in 1..Len(result) : ValidTriple(result[k])

C1_Witness ==
  /\ pc = "done"
  /\ Len(result) = 1
  /\ dimension = 2
  /\ mode = LESS
  /\ big_query = 20

\* ---------------------------------------------------------------------- C2
\* C2 as stated: with a dimension whose lo > hi, random never returns a
\* batch, whatever num is.
C2_Original == HasInverted => ~Returned

\* C2 amended: with a dimension whose lo > hi and num >= 1, random never
\* returns a batch and the call ends with the InvalidRange error.
C2_Amended ==
  /\ []((HasInverted /\ num >= 1) => ~Returned)
  /\ (HasInverted /\ num >= 1) ~> FailedInvalidRange

C2_Witness ==
  /\ HasInverted
  /\ num >= 1
  /\ FailedInvalidRange
  /\ err = MsgUpperBelowLower
  /\ d = 1

\* ---------------------------------------------------------------------- C3
OthersValid(k) ==
  \A j \in (1..dimension) \ {k} :
    /\ ~Inverted(j)
    /\ mode = LESS => ~Degenerate(j)

DegenerateCase == \E k \in 1..dimension : Degenerate(k) /\ OthersValid(k)

\* C3: with a degenerate dimension k (lo = hi) and all other dimensions
\* valid, under ALLOW_EQUAL no call fails, a call returns a triple, and every
\* sampled L[k] and R[k] equals lo; under LESS no triple is produced,
\* dimension k is never sampled, and the call ends with the InvalidRange
\* error raised at dimension k.
C3_Sampled ==
  \A k \in 1..dimension :
    (Degenerate(k) /\ OthersValid(k)) =>
      IF mode = ALLOW_EQUAL
      THEN /\ pc # "error"
           /\ \A n \in 1..Len(result) :
                result[n].l[k] = Lo(k) /\ result[n].r[k] = Lo(k)
           /\ Len(query_l) >= k => (query_l[k] = Lo(k) /\ query_r[k] = Lo(k))
      ELSE /\ result = <<>>
           /\ d < k
           /\ Len(query_l) < k
           /\ pc = "error" => (d = k - 1 /\ err = MsgLessButEqual)

C3_Degenerate ==
  /\ []C3_Sampled
  /\ (DegenerateCase /\ mode = ALLOW_EQUAL /\ num >= 1) ~> (Len(result) >= 1)
  /\ (DegenerateCase /\ mode = LESS /\ num >= 1)
       ~> (pc = "error" /\ err = MsgLessButEqual)

C3_Witness ==
  /\ mode = ALLOW_EQUAL
  /\ dimension = 2
  /\ Degenerate(2)
  /\ OthersValid(2)
  /\ branch = "big"
  /\ d = 2
  /\ Len(result) = 1

\* ---------------------------------------------------------------------- C4
\* C4 as stated: when a call fails with the InvalidRange error, no value has
\* been taken from the random source during that call.
C4_Original == FailedInvalidRange => draws = 0

\* C4 amended: the InvalidRange error is raised before any draw for the
\* offending dimension and after the draws of the dimensions before it; the
\* random source is untouched by the failed call exactly when the offending
\* dimension is the first one.
C4_Amended ==
  [][(pc # "error" /\ pc' = "error"
        /\ err' \in {MsgUpperBelowLower, MsgLessButEqual})
       => (draws' = draws /\ (draws' = 0 <=> d' = 0))]_vars

C4_Witness ==
  /\ FailedInvalidRange
  /\ d = 1
  /\ draws > 0

\* ---------------------------------------------------------------------- C5
\* C5: the batch starts empty, grows only by one triple appended at its end
\* per sampler call, and a returned batch holds exactly num triples.
C5_Count ==
  /\ result = <<>>
  /\ [][/\ result' # result =>
            /\ Len(result') = Len(result) + 1
            /\ SubSeq(result', 1, Len(result)) = result
            /\ i' = i + 1
            /\ pc = "dim"
        /\ Len(result') = i'
        /\ pc' = "done" => Len(result') = num]_vars

C5_Witness ==
  /\ pc = "done"
  /\ num = 2
  /\ Len(result) = 2
  /\ result[1] # result[2]

\* ---------------------------------------------------------------------- C6
\* C6: with a weight generator, its invocations so far are exactly one per
\* triple of the batch, the k-th with index k and the complete L and R of
\* the k-th triple, and the k-th triple stores weight_generator(k, L, R).
C6_Weight ==
  weight_generator # "None" =>
    /\ Len(calls) = Len(result)
    /\ \A k \in 1..Len(result) :
         /\ calls[k] = [index |-> k, l |-> result[k].l, r |-> result[k].r]
         /\ Len(calls[k].l) = dimension
         /\ Len(calls[k].r) = dimension
         /\ result[k].w = weight_gen(k, result[k].l, result[k].r)

C6_Witness ==
  /\ pc = "done"
  /\ weight_generator = "weight_gen"
  /\ Len(calls) = 2
  /\ dimension = 1

\* ---------------------------------------------------------------------- C7
\* Positions that delimit the fields of s separated by the character c.
Cuts(s, c) == {0, Len(s) + 1} \cup {p \in 1..Len(s) : s[p] = c}

NthCut(s, c, n) ==
  CHOOSE b \in Cuts(s, c) : Cardinality({q \in Cuts(s, c) : q < b}) = n - 1

NumFields(s, c) == Cardinality(Cuts(s, c)) - 1

Field(s, c, n) == SubSeq(s, NthCut(s, c, n) + 1, NthCut(s, c, n + 1) - 1)

DigitVal(c) ==
  CASE c = "0" -> 0 [] c = "1" -> 1 [] c = "2" -> 2 [] c = "3" -> 3
    [] c = "4" -> 4 [] c = "5" -> 5 [] c = "6" -> 6 [] c = "7" -> 7
    [] c = "8" -> 8 [] c = "9" -> 9 [] OTHER -> -1

\* tok is the decimal text of the natural number v.
IsDecimal(tok, v) ==
  /\ tok # <<>>
  /\ \A p \in 1..Len(tok) : DigitVal(tok[p]) >= 0
  /\ Len(tok) > 1 => tok[1] # "0"
  /\ LET val[p \in 0..Len(tok)] ==
           IF p = 0 THEN 0 ELSE 10 * val[p - 1] + DigitVal(tok[p])
     IN val[Len(tok)] = v

\* The fields of a line: the L values, the R values and the weight
\* components; an empty L or R list leaves one empty field.
ExpectedFields(t) ==
  LET pad(xs) == IF xs = <<>> THEN <<-1>> ELSE xs
  IN pad(t.l) \o pad(t.r) \o t.w

LineOK(line, t) ==
  LET exp == ExpectedFields(t) IN
    /\ NumFields(line, " ") = Len(exp)
    /\ \A j \in 1..Len(exp) :
         IF exp[j] = -1 THEN Field(line, " ", j) = <<>>
         ELSE IsDecimal(Field(line, " ", j), exp[j])

\* C7: without a weight generator every W is (); the text of a batch of
\* n >= 1 triples is n lines separated by single newlines with none at the
\* end, line k holding the L values, the R values and, exactly when W is not
\* empty, the weight components of triple k, separated by single spaces.
C7_Render ==
  /\ weight_generator = "None" => \A k \in 1..Len(result) : result[k].w = <<>>
  /\ (pc = "rendered" /\ Len(result) >= 1) =>
       /\ NumFields(out, "\n") = Len(result)
       /\ \A k \in 1..Len(result) : LineOK(Field(out, "\n", k), result[k])

C7_Witness ==
  /\ pc = "rendered"
  /\ weight_generator = "None"
  /\ Len(result) = 2
  /\ dimension = 1

\* ---------------------------------------------------------------------- C8
\* C8: when the InvalidRange error is raised it is in the call with index 1,
\* the batch is empty and the weight generator has not been invoked; a
\* returned batch holds all num triples.
C8_Atomic ==
  /\ FailedInvalidRange => (CallIndex = 1 /\ result = <<>> /\ calls = <<>>)
  /\ Returned => Len(result) = num

C8_Witness ==
  /\ FailedInvalidRange
  /\ num = 2
  /\ weight_generator = "weight_gen"
  /\ d = 0

\* ---------------------------------------------------------------------- C9
MinLen(k) == LET span == Hi(k) - Lo(k) + 1
                 floor == IF mode = LESS THEN 2 ELSE 1
                 half == span \div 2
             IN IF floor >= half THEN floor ELSE half

Validated(k) == Lo(k) <= Hi(k) /\ (mode = LESS => Lo(k) < Hi(k))

\* C9: for every validated dimension both draw intervals of the big-query
\* branch are non-empty, no draw from an empty interval happens, and a
\* dimension sampled by the big-query branch has
\* min_len <= R - L + 1 <= span, lo <= L, R <= hi, and L # R under LESS.
C9_BigQuery ==
  /\ err # "empty range"
  /\ \A k \in 1..dimension :
       Validated(k) =>
         /\ MinLen(k) <= Hi(k) - Lo(k) + 1
         /\ \A len \in MinLen(k)..(Hi(k) - Lo(k) + 1) : Lo(k) <= Hi(k) - len + 1
  /\ (branch = "big" /\ d >= 1 /\ Len(query_l) = d) =>
       /\ query_l[d] = l
       /\ query_r[d] = r
       /\ MinLen(d) <= r - l + 1
       /\ r - l + 1 <= Hi(d) - Lo(d) + 1
       /\ Lo(d) <= l
       /\ r <= Hi(d)
       /\ mode = LESS => l # r

C9_Witness ==
  /\ branch = "big"
  /\ pc = "dim"
  /\ d = 1
  /\ mode = LESS
  /\ position_range.is_none
  /\ r - l + 1 = 5

\* --------------------------------------------------------------------- C10
\* C10: the redraw loop is entered only under LESS with equal values; it
\* ends, and when it ends the dimension gets L = min < R = max.
C10_Redraw ==
  /\ [](pc = "redraw" => (mode = LESS /\ l = r))
  /\ [][(pc = "redraw" /\ pc' # "redraw") =>
          /\ pc' = "dim"
          /\ l' < r'
          /\ query_l' = Append(query_l, l')
          /\ query_r' = Append(query_r, r')]_vars
  /\ (pc = "redraw") ~> (pc = "dim")

C10_Witness ==
  /\ pc = "redraw"
  /\ mode = LESS
  /\ l = r
  /\ d = 1

====
